---- MODULE Spec2Model ----
(***************************************************************************)
(* Streaming JSON builder (package json): Builder writes a JSON object,    *)
(* ListBuilder a JSON list, both to a shared io.Writer, through a shared   *)
(* encoder.  The model keeps every writer of one document in a heap, the   *)
(* sink as the sequence of tokens written so far, and the stack of         *)
(* AddObjectFunc/AddListFunc calls whose callback is still running.        *)
(***************************************************************************)
EXTENDS Integers, Sequences, FiniteSets, TLC

\* ---- bounds of the model ----
MaxWriters == 3   \* writers allocated in one document (top-level included)
MaxDoc     == 8   \* tokens on the sink, while every call respected the usage rules
MaxSink    == 5   \* tokens on the sink, once a call has broken them
MaxArgs    == 2   \* arguments of one AddAll call, every combination; pairs of a longer list
MaxMisuse  == 1   \* calls of one run that break the usage rules or meet a failing Write
MaxFailAt  == 3   \* the Write calls of one operation that the sink may fail: the first MaxFailAt

\* ---- writerState (json.go:19-21) and the nil reference ----
startState  == 0
openedState == 1
closedState == 2
Nil         == 0

\* ---- the byte slices written as delimiters (json.go:23-28) ----
openBraceBytes    == "{"
closeBraceBytes   == "}"
openBracketBytes  == "["
closeBracketBytes == "]"
colonBytes        == ":"
commaBytes        == ","

\* ---- error values; NoErr is Go's nil error ----
NoErr                  == "nil"
ErrBuilderInit         == "Builder init'd after being mutated"
ErrSubNotClosed        == "A sub-Builder was not closed"
ErrBuilderMutated      == "Builder mutated after Close()"
ErrAddAllOdd           == "AddAll takes an even number of args"
ErrArgNotString        == "Arg was not a string"
ErrBuilderCloseMutated == "ListBuilder mutated after Close()"
ErrListInit            == "ListBuilder init'd after being mutated"
ErrListMutated         == "ListWriter mutated after Close() [preadd]"
ErrListCloseMutated    == "ListWriter mutated after Close() [Close]"
ErrFn                  == "error returned by the BuilderFunc"
ErrSink                == "io.Writer.Write failed"

\* ---- values handed to Add/AddAll (interface{}) ----
\* A value is its dynamic type and its text.  chan is a type json.Marshal
\* rejects (UnsupportedTypeError).
StrVal(s) == [type |-> "string", text |-> s]
IntVal(t) == [type |-> "int", text |-> t]
ChanVal   == [type |-> "chan", text |-> ""]
Keys      == {"a", "b"}
Values    == {IntVal("7"), ChanVal}
ArgValues == {StrVal("a"), IntVal("7")}

\* encoding/json.Marshal: a string is quoted, an int printed, a chan refused.
Marshal(arg) ==
  IF arg.type = "chan" THEN [ok |-> FALSE, bytes |-> ""]
  ELSE IF arg.type = "string" THEN [ok |-> TRUE, bytes |-> "\"" \o arg.text \o "\""]
  ELSE [ok |-> TRUE, bytes |-> arg.text]

VARIABLES
  heap,      \* the writers: heap[b] = [kind, state, subB, Err]
  sink,      \* tokens written to the io.Writer, in order
  by,        \* by[i]: the writer whose write() wrote sink[i]; Nil for the encoder
  stack,     \* running AddObjectFunc/AddListFunc calls: [fn, b, subB]
  ret,       \* the reference returned by the latest AddObject/AddList
  panicked,  \* a method was called on a nil *Builder
  meta,      \* history: meta[b] = [parent, via]
  tree,      \* history: tree[b] = the entries added to b, in call order
  misuse,    \* history: the calls so far that broke the usage rules
  started,   \* history: started[b] = the entries of b that passed preadd
  encfail    \* history: json.Marshal has refused a value

vars == <<heap, sink, by, stack, ret, panicked, meta, tree, misuse, started, encfail>>

\* ---- the machine the functions run on ----
\* fail: the ordinals of the Write calls of this operation that the sink fails;
\* nw: Write calls so far; rv: the error the latest Write/encode returned;
\* ret: the reference the operation returns; ne: the entries the operation
\* started (history); mf: json.Marshal refused a value (history).
Mach(F) ==
  [heap |-> heap, sink |-> sink, by |-> by, fail |-> F, nw |-> 0,
   rv |-> NoErr, ret |-> Nil, ne |-> 0, mf |-> FALSE]

\* io.Writer.Write on the shared sink.
SinkWrite(m, tag, x) ==
  IF (m.nw + 1) \in m.fail
  THEN [m EXCEPT !.nw = @ + 1, !.rv = ErrSink]
  ELSE [m EXCEPT !.nw = @ + 1, !.rv = NoErr,
                 !.sink = Append(@, x), !.by = Append(@, tag)]

\* basicEncoder.encode: a Marshal failure returns nil and writes nothing.
encode(m, arg) ==
  LET j == Marshal(arg) IN
  IF ~j.ok THEN [m EXCEPT !.rv = NoErr, !.mf = TRUE]
  ELSE SinkWrite(m, Nil, j.bytes)

\* &Builder{0, b.w, b.e, nil, nil} and &ListBuilder{0, b.w, b.e, nil, nil}
NewWriter(kind) ==
  [kind |-> kind, state |-> startState, subB |-> Nil, Err |-> NoErr]

Alloc(m, kind) == [m EXCEPT !.heap = Append(@, NewWriter(kind))]

\* builderCommon.err() and builderCommon.closed()
sub_err(m, s)    == m.heap[s].Err
sub_closed(m, s) == m.heap[s].state = closedState

\* =========================== Builder ===========================

Builder_write(m, b, x) ==
  IF m.heap[b].Err = NoErr
  THEN LET r == SinkWrite(m, b, x) IN [r EXCEPT !.heap[b].Err = r.rv]
  ELSE m

\* Mutant of Builder_init: the opening brace is not written.
Builder_init_NoBrace(m, b) ==
  IF m.heap[b].state # startState
  THEN [m EXCEPT !.heap[b].Err = ErrBuilderInit] ELSE m

Builder_init(m, b) ==
  LET m1 == IF m.heap[b].state # startState
            THEN [m EXCEPT !.heap[b].Err = ErrBuilderInit] ELSE m
  IN Builder_write(m1, b, openBraceBytes)

ListBuilder_write(m, b, x) ==
  IF m.heap[b].Err = NoErr
  THEN LET r == SinkWrite(m, b, x) IN [r EXCEPT !.heap[b].Err = r.rv]
  ELSE m

ListBuilder_init(m, b) ==
  LET m1 == IF m.heap[b].state # startState
            THEN [m EXCEPT !.heap[b].Err = ErrListInit] ELSE m
  IN ListBuilder_write(m1, b, openBracketBytes)

Builder_checkSub(m, b) ==
  IF m.heap[b].Err = NoErr /\ m.heap[b].subB # Nil
  THEN LET s  == m.heap[b].subB
           m1 == IF sub_err(m, s) # NoErr
                 THEN [m EXCEPT !.heap[b].Err = sub_err(m, s)]
                 ELSE IF ~sub_closed(m, s)
                      THEN [m EXCEPT !.heap[b].Err = ErrSubNotClosed]
                      ELSE m
       IN [m1 EXCEPT !.heap[b].subB = Nil]
  ELSE m

\* Mutant of Builder_preadd: the writer is never moved to openedState, so no
\* entry is seen as a later one and no ',' is written.
Builder_preadd_NeverOpened(m, b, key) ==
  LET m1 == IF m.heap[b].state = closedState
            THEN [m EXCEPT !.heap[b].Err = ErrBuilderMutated] ELSE m
      m2 == Builder_checkSub(m1, b)
  IN IF m2.heap[b].Err # NoErr THEN m2
     ELSE LET r  == encode([m2 EXCEPT !.ne = @ + 1], StrVal(key))
              m4 == [r EXCEPT !.heap[b].Err = r.rv]
          IN Builder_write(m4, b, colonBytes)

\* Mutant of Builder_preadd: the closedState test is missing.
Builder_preadd_NoClosedCheck(m, b, key) ==
  LET m2 == Builder_checkSub(m, b)
  IN IF m2.heap[b].Err # NoErr THEN m2
     ELSE LET m3 == IF m2.heap[b].state = startState
                    THEN [m2 EXCEPT !.heap[b].state = openedState]
                    ELSE Builder_write(m2, b, commaBytes)
              r  == encode([m3 EXCEPT !.ne = @ + 1], StrVal(key))
              m4 == [r EXCEPT !.heap[b].Err = r.rv]
          IN Builder_write(m4, b, colonBytes)

Builder_preadd(m, b, key) ==
  LET m1 == IF m.heap[b].state = closedState
            THEN [m EXCEPT !.heap[b].Err = ErrBuilderMutated] ELSE m
      m2 == Builder_checkSub(m1, b)
  IN IF m2.heap[b].Err # NoErr THEN m2
     ELSE LET m3 == IF m2.heap[b].state = startState
                    THEN [m2 EXCEPT !.heap[b].state = openedState]
                    ELSE Builder_write(m2, b, commaBytes)
              r  == encode([m3 EXCEPT !.ne = @ + 1], StrVal(key))
              m4 == [r EXCEPT !.heap[b].Err = r.rv]
          IN Builder_write(m4, b, colonBytes)

Builder_Add(m, b, key, value) ==
  LET m1 == Builder_preadd(m, b, key) IN
  IF m1.heap[b].Err # NoErr THEN m1
  ELSE LET r == encode(m1, value) IN [r EXCEPT !.heap[b].Err = r.rv]

\* Mutant of Builder_AddAll_loop: a pair whose key is not a string is skipped
\* and the loop goes on with the next pair.
RECURSIVE Builder_AddAll_loop_SkipBadKey(_, _, _, _)
Builder_AddAll_loop_SkipBadKey(m, b, args, i) ==
  IF i <= Len(args) /\ m.heap[b].Err = NoErr
  THEN IF args[i].type = "string"
       THEN Builder_AddAll_loop_SkipBadKey(
              Builder_Add(m, b, args[i].text, args[i + 1]), b, args, i + 2)
       ELSE Builder_AddAll_loop_SkipBadKey(m, b, args, i + 2)
  ELSE m

RECURSIVE Builder_AddAll_loop(_, _, _, _)
Builder_AddAll_loop(m, b, args, i) ==
  IF i <= Len(args) /\ m.heap[b].Err = NoErr
  THEN IF args[i].type = "string"
       THEN Builder_AddAll_loop(Builder_Add(m, b, args[i].text, args[i + 1]),
                                b, args, i + 2)
       ELSE [m EXCEPT !.heap[b].Err = ErrArgNotString]
  ELSE m

Builder_AddAll(m, b, args) ==
  IF Len(args) % 2 # 0
  THEN [m EXCEPT !.heap[b].Err = ErrAddAllOdd]
  ELSE Builder_AddAll_loop(m, b, args, 1)

Builder_AddObject(m, b, key) ==
  LET m1 == Builder_preadd(m, b, key)
      c  == Len(m1.heap) + 1
      m2 == Builder_init(Alloc(m1, "obj"), c)
  IN [m2 EXCEPT !.heap[b].subB = c, !.ret = c]

Builder_AddList(m, b, key) ==
  LET m1 == Builder_preadd(m, b, key)
      c  == Len(m1.heap) + 1
      m2 == ListBuilder_init(Alloc(m1, "list"), c)
  IN [m2 EXCEPT !.heap[b].subB = c, !.ret = c]

\* Mutant of Builder_Close: the error of a second Close is pushed at once to
\* the writer that holds b as its subB.
Builder_Close_Eager(m, b) ==
  IF m.heap[b].state = closedState
  THEN [m EXCEPT !.heap =
          [w \in DOMAIN @ |->
             IF w = b \/ @[w].subB = b
             THEN [@[w] EXCEPT !.Err = ErrBuilderCloseMutated] ELSE @[w]]]
  ELSE LET m1 == Builder_checkSub(m, b) IN
       IF m1.heap[b].Err # NoErr THEN m1
       ELSE LET m2 == Builder_write(m1, b, closeBraceBytes)
            IN [m2 EXCEPT !.heap[b].state = closedState]

\* Mutant of Builder_Close: a Close on a closed writer reopens it.
Builder_Close_Reopen(m, b) ==
  IF m.heap[b].state = closedState
  THEN [m EXCEPT !.heap[b].Err = ErrBuilderCloseMutated,
                 !.heap[b].state = openedState]
  ELSE LET m1 == Builder_checkSub(m, b) IN
       IF m1.heap[b].Err # NoErr THEN m1
       ELSE LET m2 == Builder_write(m1, b, closeBraceBytes)
            IN [m2 EXCEPT !.heap[b].state = closedState]

Builder_Close(m, b) ==
  IF m.heap[b].state = closedState
  THEN [m EXCEPT !.heap[b].Err = ErrBuilderCloseMutated]
  ELSE LET m1 == Builder_checkSub(m, b) IN
       IF m1.heap[b].Err # NoErr THEN m1
       ELSE LET m2 == Builder_write(m1, b, closeBraceBytes)
            IN [m2 EXCEPT !.heap[b].state = closedState]

\* =========================== ListBuilder ===========================

ListBuilder_checkSub(m, b) ==
  IF m.heap[b].Err = NoErr /\ m.heap[b].subB # Nil
  THEN LET s  == m.heap[b].subB
           m1 == IF sub_err(m, s) # NoErr
                 THEN [m EXCEPT !.heap[b].Err = sub_err(m, s)]
                 ELSE IF ~sub_closed(m, s)
                      THEN [m EXCEPT !.heap[b].Err = ErrSubNotClosed]
                      ELSE m
       IN [m1 EXCEPT !.heap[b].subB = Nil]
  ELSE m

\* Mutant of ListBuilder_preadd: the ',' is written before the first element
\* too.
ListBuilder_preadd_AlwaysComma(m, b) ==
  LET m1 == IF m.heap[b].state = closedState
            THEN [m EXCEPT !.heap[b].Err = ErrListMutated] ELSE m
      m2 == ListBuilder_checkSub(m1, b)
  IN IF m2.heap[b].Err # NoErr THEN m2
     ELSE LET m3 == [m2 EXCEPT !.ne = @ + 1, !.heap[b].state = openedState]
          IN ListBuilder_write(m3, b, commaBytes)

ListBuilder_preadd(m, b) ==
  LET m1 == IF m.heap[b].state = closedState
            THEN [m EXCEPT !.heap[b].Err = ErrListMutated] ELSE m
      m2 == ListBuilder_checkSub(m1, b)
  IN IF m2.heap[b].Err # NoErr THEN m2
     ELSE LET m3 == [m2 EXCEPT !.ne = @ + 1] IN
          IF m3.heap[b].state = startState
          THEN [m3 EXCEPT !.heap[b].state = openedState]
          ELSE ListBuilder_write(m3, b, commaBytes)

ListBuilder_Add(m, b, value) ==
  LET m1 == ListBuilder_preadd(m, b) IN
  IF m1.heap[b].Err # NoErr THEN m1
  ELSE LET r == encode(m1, value) IN [r EXCEPT !.heap[b].Err = r.rv]

RECURSIVE ListBuilder_AddAll_loop(_, _, _, _)
ListBuilder_AddAll_loop(m, b, args, i) ==
  IF i <= Len(args) /\ m.heap[b].Err = NoErr
  THEN ListBuilder_AddAll_loop(ListBuilder_Add(m, b, args[i]), b, args, i + 1)
  ELSE m

ListBuilder_AddAll(m, b, args) == ListBuilder_AddAll_loop(m, b, args, 1)

\* Returns nil when preadd fails; the child is never stored in b.subB.
ListBuilder_AddObject(m, b) ==
  LET m1 == ListBuilder_preadd(m, b) IN
  IF m1.heap[b].Err # NoErr THEN [m1 EXCEPT !.ret = Nil]
  ELSE LET c  == Len(m1.heap) + 1
           m2 == Builder_init(Alloc(m1, "obj"), c)
       IN [m2 EXCEPT !.ret = c]

ListBuilder_AddList(m, b) ==
  LET m1 == ListBuilder_preadd(m, b)
      c  == Len(m1.heap) + 1
      m2 == ListBuilder_init(Alloc(m1, "list"), c)
  IN [m2 EXCEPT !.heap[b].subB = c, !.ret = c]

\* Mutant of ListBuilder_Close: a Close on a closed writer writes the closing
\* bracket again.
ListBuilder_Close_Rewrite(m, b) ==
  IF m.heap[b].state = closedState
  THEN [SinkWrite(m, b, closeBracketBytes) EXCEPT !.heap[b].Err = ErrListCloseMutated]
  ELSE LET m1 == ListBuilder_checkSub(m, b) IN
       IF m1.heap[b].Err # NoErr THEN m1
       ELSE LET m2 == ListBuilder_write(m1, b, closeBracketBytes)
            IN [m2 EXCEPT !.heap[b].state = closedState]

ListBuilder_Close(m, b) ==
  IF m.heap[b].state = closedState
  THEN [m EXCEPT !.heap[b].Err = ErrListCloseMutated]
  ELSE LET m1 == ListBuilder_checkSub(m, b) IN
       IF m1.heap[b].Err # NoErr THEN m1
       ELSE LET m2 == ListBuilder_write(m1, b, closeBracketBytes)
            IN [m2 EXCEPT !.heap[b].state = closedState]

\* ============ AddObjectFunc / AddListFunc, in two steps ============
\* The call runs up to the point where f is invoked (json.go:151-156); the
\* callback then runs as ordinary calls on the scoped child; the return runs
\* the rest (json.go:157-162) with the error f returned.

Builder_AddObjectFunc_call(m, b, key) ==
  LET m1 == Builder_preadd(m, b, key) IN
  IF m1.heap[b].Err # NoErr THEN m1
  ELSE Builder_init(Alloc(m1, "obj"), Len(m1.heap) + 1)

\* Mutant of Builder_AddObjectFunc_return: the scoped child is closed only
\* when f succeeded.
Builder_AddObjectFunc_return_NoCloseOnError(m, b, subB, ferr) ==
  LET m1 == [m EXCEPT !.heap[b].Err = ferr]
      m2 == IF m1.heap[b].Err = NoErr
            THEN [m1 EXCEPT !.heap[b].Err = m1.heap[subB].Err] ELSE m1
  IN IF ferr # NoErr THEN m2 ELSE Builder_Close(m2, subB)

Builder_AddObjectFunc_return(m, b, subB, ferr) ==
  LET m1 == [m EXCEPT !.heap[b].Err = ferr]
      m2 == IF m1.heap[b].Err = NoErr
            THEN [m1 EXCEPT !.heap[b].Err = m1.heap[subB].Err] ELSE m1
  IN Builder_Close(m2, subB)

Builder_AddListFunc_call(m, b, key) ==
  LET m1 == Builder_preadd(m, b, key) IN
  IF m1.heap[b].Err # NoErr THEN m1
  ELSE ListBuilder_init(Alloc(m1, "list"), Len(m1.heap) + 1)

Builder_AddListFunc_return(m, b, subB, ferr) ==
  LET m1 == [m EXCEPT !.heap[b].Err = ferr]
      m2 == IF m1.heap[b].Err = NoErr
            THEN [m1 EXCEPT !.heap[b].Err = m1.heap[subB].Err] ELSE m1
  IN ListBuilder_Close(m2, subB)

ListBuilder_AddObjectFunc_call(m, b) ==
  LET m1 == ListBuilder_preadd(m, b) IN
  IF m1.heap[b].Err # NoErr THEN m1
  ELSE Builder_init(Alloc(m1, "obj"), Len(m1.heap) + 1)

ListBuilder_AddObjectFunc_return(m, b, subB, ferr) ==
  LET m1 == [m EXCEPT !.heap[b].Err = ferr]
      m2 == IF m1.heap[b].Err = NoErr
            THEN [m1 EXCEPT !.heap[b].Err = m1.heap[subB].Err] ELSE m1
  IN Builder_Close(m2, subB)

ListBuilder_AddListFunc_call(m, b) ==
  LET m1 == ListBuilder_preadd(m, b) IN
  IF m1.heap[b].Err # NoErr THEN m1
  ELSE ListBuilder_init(Alloc(m1, "list"), Len(m1.heap) + 1)

ListBuilder_AddListFunc_return(m, b, subB, ferr) ==
  LET m1 == [m EXCEPT !.heap[b].Err = ferr]
      m2 == IF m1.heap[b].Err = NoErr
            THEN [m1 EXCEPT !.heap[b].Err = m1.heap[subB].Err] ELSE m1
  IN ListBuilder_Close(m2, subB)

\* ====================== the caller and its history ======================

Writers == 1..Len(heap)

\* The children b spawned, and the latest one it spawned with AddObject/AddList.
Kids(b)    == {c \in Writers : meta[c].parent = b}
Nested(b)  == {c \in Kids(b) : ~meta[c].via}
LastKid(b) == IF Nested(b) = {} THEN Nil
              ELSE CHOOSE c \in Nested(b) : \A d \in Nested(b) : d <= c

\* The usage rules of the package comments: nothing is called on a closed
\* writer, a sub-builder is closed before its parent is used again, and a
\* writer whose Err is set is not written to.
UsageOK(b) ==
  /\ heap[b].state # closedState
  /\ heap[b].Err = NoErr
  /\ \A c \in Kids(b) : heap[c].state = closedState /\ heap[c].Err = NoErr

valid == misuse = 0

\* A writer the running code holds a reference to: during a BuilderFunc, the
\* scoped child it was handed and the writers made since.
Callable(b) ==
  /\ ~panicked
  /\ b \in Writers
  /\ stack # <<>> => b >= stack[Len(stack)].subB

Entry(key, val, child) == [key |-> key, val |-> val, child |-> child]

\* One call on b, run to the point where control is back with the caller (or
\* with the BuilderFunc): m is the machine the code left, es the entries the
\* call adds to b, ok whether the call respected the usage rules, via whether
\* a writer it made is the scoped child of a Func call.
Run(m, b, es, ok, via, stk, r) ==
  LET mis  == IF ok /\ m.fail = {} THEN misuse ELSE misuse + 1
      grew == Len(m.heap) > Len(heap)
      t1   == [tree EXCEPT ![b] = @ \o es]
      s1   == [started EXCEPT ![b] = @ + m.ne]
  IN /\ m.fail \subseteq 1..m.nw
     /\ Len(m.sink) <= (IF mis = 0 THEN MaxDoc ELSE MaxSink)
     /\ Len(m.heap) <= MaxWriters
     /\ mis <= MaxMisuse
     /\ heap' = m.heap
     /\ sink' = m.sink
     /\ by' = m.by
     /\ stack' = stk
     /\ ret' = r
     /\ panicked' = FALSE
     /\ meta' = IF grew THEN Append(meta, [parent |-> b, via |-> via]) ELSE meta
     /\ misuse' = mis
     /\ tree' = IF mis = 0 THEN (IF grew THEN Append(t1, <<>>) ELSE t1)
                ELSE [i \in 1..Len(m.heap) |-> <<>>]
     /\ started' = IF grew THEN Append(s1, 0) ELSE s1
     /\ encfail' = (encfail \/ m.mf)

ArgLists == UNION {[1..n -> ArgValues] : n \in 0..MaxArgs}

\* Longer argument lists, of MaxArgs pairs: the pairs "a":7,"b":7,..; the same
\* with the keys from pair j on (or pair j alone) replaced by the int 7; the
\* same with the last value missing.
GoodList(n) ==
  [i \in 1..(2 * n) |->
     IF i % 2 = 0 THEN IntVal("7")
     ELSE StrVal(IF i % 4 = 1 THEN "a" ELSE "b")]

BadKeyLists(n) ==
  {[i \in 1..(2 * n) |->
      IF i % 2 = 1 /\ (i = 2 * j - 1 \/ (rest /\ i > 2 * j))
      THEN IntVal("7") ELSE GoodList(n)[i]] : j \in 1..n, rest \in BOOLEAN}

LongLists ==
  LET even == {GoodList(MaxArgs)} \cup BadKeyLists(MaxArgs)
  IN even \cup {SubSeq(l, 1, 2 * MaxArgs - 1) : l \in even}

\* The argument lists the caller passes to AddAll.
CallLists == ArgLists \cup LongLists

PairsOK(args) ==
  /\ Len(args) % 2 = 0
  /\ \A i \in 1..Len(args) :
        IF i % 2 = 1 THEN args[i].type = "string" ELSE Marshal(args[i]).ok

\* ---- Builder ----
BuilderAdd(b, key, value, F) ==
  /\ Callable(b) /\ heap[b].kind = "obj"
  /\ Run(Builder_Add(Mach(F), b, key, value), b,
         <<Entry(key, Marshal(value).bytes, Nil)>>,
         UsageOK(b) /\ Marshal(value).ok, FALSE, stack, ret)

BuilderAddAll(b, args, F) ==
  /\ Callable(b) /\ heap[b].kind = "obj"
  /\ Run(Builder_AddAll(Mach(F), b, args), b,
         [i \in 1..(Len(args) \div 2) |->
            Entry(args[2 * i - 1].text, Marshal(args[2 * i]).bytes, Nil)],
         UsageOK(b) /\ PairsOK(args), FALSE, stack, ret)

BuilderAddObject(b, key, F) ==
  /\ Callable(b) /\ heap[b].kind = "obj"
  /\ LET m == Builder_AddObject(Mach(F), b, key) IN
     Run(m, b, <<Entry(key, "", m.ret)>>, UsageOK(b), FALSE, stack, m.ret)

BuilderAddList(b, key, F) ==
  /\ Callable(b) /\ heap[b].kind = "obj"
  /\ LET m == Builder_AddList(Mach(F), b, key) IN
     Run(m, b, <<Entry(key, "", m.ret)>>, UsageOK(b), FALSE, stack, m.ret)

\* The call either returns at once (preadd failed) or hands the scoped child
\* to f, which then runs.
FuncCall(m, fn, b, key) ==
  LET c == Len(heap) + 1 IN
  IF Len(m.heap) > Len(heap)
  THEN Run(m, b, <<Entry(key, "", c)>>, UsageOK(b), TRUE,
           Append(stack, [fn |-> fn, b |-> b, subB |-> c]), ret)
  ELSE Run(m, b, <<>>, FALSE, TRUE, stack, ret)

BuilderAddObjectFunc(b, key, F) ==
  /\ Callable(b) /\ heap[b].kind = "obj"
  /\ FuncCall(Builder_AddObjectFunc_call(Mach(F), b, key), "Builder.AddObjectFunc", b, key)

BuilderAddListFunc(b, key, F) ==
  /\ Callable(b) /\ heap[b].kind = "obj"
  /\ FuncCall(Builder_AddListFunc_call(Mach(F), b, key), "Builder.AddListFunc", b, key)

BuilderClose(b, F) ==
  /\ Callable(b) /\ heap[b].kind = "obj"
  /\ Run(Builder_Close(Mach(F), b), b, <<>>, UsageOK(b), FALSE, stack, ret)

\* ---- ListBuilder ----
ListBuilderAdd(b, value, F) ==
  /\ Callable(b) /\ heap[b].kind = "list"
  /\ Run(ListBuilder_Add(Mach(F), b, value), b,
         <<Entry("", Marshal(value).bytes, Nil)>>,
         UsageOK(b) /\ Marshal(value).ok, FALSE, stack, ret)

ListBuilderAddAll(b, args, F) ==
  /\ Callable(b) /\ heap[b].kind = "list"
  /\ Run(ListBuilder_AddAll(Mach(F), b, args), b,
         [i \in 1..Len(args) |-> Entry("", Marshal(args[i]).bytes, Nil)],
         UsageOK(b) /\ \A i \in 1..Len(args) : Marshal(args[i]).ok,
         FALSE, stack, ret)

ListBuilderAddObject(b, F) ==
  /\ Callable(b) /\ heap[b].kind = "list"
  /\ LET m == ListBuilder_AddObject(Mach(F), b) IN
     Run(m, b, <<Entry("", "", m.ret)>>, UsageOK(b), FALSE, stack, m.ret)

ListBuilderAddList(b, F) ==
  /\ Callable(b) /\ heap[b].kind = "list"
  /\ LET m == ListBuilder_AddList(Mach(F), b) IN
     Run(m, b, <<Entry("", "", m.ret)>>, UsageOK(b), FALSE, stack, m.ret)

ListBuilderAddObjectFunc(b, F) ==
  /\ Callable(b) /\ heap[b].kind = "list"
  /\ FuncCall(ListBuilder_AddObjectFunc_call(Mach(F), b), "ListBuilder.AddObjectFunc", b, "")

ListBuilderAddListFunc(b, F) ==
  /\ Callable(b) /\ heap[b].kind = "list"
  /\ FuncCall(ListBuilder_AddListFunc_call(Mach(F), b), "ListBuilder.AddListFunc", b, "")

ListBuilderClose(b, F) ==
  /\ Callable(b) /\ heap[b].kind = "list"
  /\ Run(ListBuilder_Close(Mach(F), b), b, <<>>, UsageOK(b), FALSE, stack, ret)

\* ---- f returns ferr: the rest of the innermost running Func call ----
FuncRest(m, fr, ferr) ==
  CASE fr.fn = "Builder.AddObjectFunc" ->
         Builder_AddObjectFunc_return(m, fr.b, fr.subB, ferr)
    [] fr.fn = "Builder.AddListFunc" ->
         Builder_AddListFunc_return(m, fr.b, fr.subB, ferr)
    [] fr.fn = "ListBuilder.AddObjectFunc" ->
         ListBuilder_AddObjectFunc_return(m, fr.b, fr.subB, ferr)
    [] fr.fn = "ListBuilder.AddListFunc" ->
         ListBuilder_AddListFunc_return(m, fr.b, fr.subB, ferr)

FuncReturn(ferr, F) ==
  /\ ~panicked
  /\ stack # <<>>
  /\ LET fr == stack[Len(stack)] IN
     Run(FuncRest(Mach(F), fr, ferr), fr.b, <<>>,
         ferr = NoErr /\ UsageOK(fr.subB), TRUE,
         SubSeq(stack, 1, Len(stack) - 1), ret)

\* ---- a method called on the nil *Builder that AddObject returned ----
NilCall ==
  /\ ~panicked
  /\ ret = Nil
  /\ panicked' = TRUE
  /\ UNCHANGED <<heap, sink, by, stack, ret, meta, tree, misuse, started, encfail>>

\* NewBuilder(w) or NewListBuilder(w): the struct, then init().
New(kind, F) ==
  LET m0 == [heap |-> <<NewWriter(kind)>>, sink |-> <<>>, by |-> <<>>,
             fail |-> F, nw |-> 0, rv |-> NoErr, ret |-> Nil,
             ne |-> 0, mf |-> FALSE]
  IN IF kind = "obj" THEN Builder_init(m0, 1) ELSE ListBuilder_init(m0, 1)

\* The state NewBuilder/NewListBuilder returns in, the Write calls in F failed.
Start(kind, F) ==
  /\ heap = New(kind, F).heap
  /\ sink = New(kind, F).sink
  /\ by = New(kind, F).by
  /\ stack = <<>>
  /\ ret = 1
  /\ panicked = FALSE
  /\ meta = <<[parent |-> Nil, via |-> FALSE]>>
  /\ tree = << <<>> >>
  /\ misuse = Cardinality(F)
  /\ started = <<0>>
  /\ encfail = FALSE

Init == \E kind \in {"obj", "list"} : Start(kind, {})

\* One call, or the return of a running BuilderFunc; F: the Write calls of
\* the operation that the sink fails.
Step(F) ==
  \/ \E b \in 1..MaxWriters, key \in Keys, value \in Values : BuilderAdd(b, key, value, F)
  \/ \E b \in 1..MaxWriters, args \in CallLists : BuilderAddAll(b, args, F)
  \/ \E b \in 1..MaxWriters, key \in Keys : BuilderAddObject(b, key, F)
  \/ \E b \in 1..MaxWriters, key \in Keys : BuilderAddList(b, key, F)
  \/ \E b \in 1..MaxWriters, key \in Keys : BuilderAddObjectFunc(b, key, F)
  \/ \E b \in 1..MaxWriters, key \in Keys : BuilderAddListFunc(b, key, F)
  \/ \E b \in 1..MaxWriters : BuilderClose(b, F)
  \/ \E b \in 1..MaxWriters, value \in Values : ListBuilderAdd(b, value, F)
  \/ \E b \in 1..MaxWriters, args \in CallLists : ListBuilderAddAll(b, args, F)
  \/ \E b \in 1..MaxWriters : ListBuilderAddObject(b, F)
  \/ \E b \in 1..MaxWriters : ListBuilderAddList(b, F)
  \/ \E b \in 1..MaxWriters : ListBuilderAddObjectFunc(b, F)
  \/ \E b \in 1..MaxWriters : ListBuilderAddListFunc(b, F)
  \/ \E b \in 1..MaxWriters : ListBuilderClose(b, F)
  \/ \E ferr \in {NoErr, ErrFn} : FuncReturn(ferr, F)
  \/ NilCall

\* The sink never fails.
Next == Step({})

Spec == Init /\ [][Next]_vars

\* ---- the same program on a sink whose Write calls may fail ----
FailSets == SUBSET (1..MaxFailAt)

InitSink == \E kind \in {"obj", "list"}, F \in {{}, {1}} : Start(kind, F)

NextSink == \E F \in FailSets : Step(F)

SpecSink == InitSink /\ [][NextSink]_vars

\* ================= what one call leaves, from the present state =================
\* The machines the public calls on writer b can leave: the functions above,
\* applied to the present state, over every input.

IsObj(b) == heap[b].kind = "obj"

AddCalls(b, values) ==
  IF IsObj(b) THEN {Builder_Add(Mach({}), b, k, v) : k \in Keys, v \in values}
  ELSE {ListBuilder_Add(Mach({}), b, v) : v \in values}

AddAllCalls(b, lists) ==
  IF IsObj(b) THEN {Builder_AddAll(Mach({}), b, a) : a \in lists}
  ELSE {ListBuilder_AddAll(Mach({}), b, a) : a \in lists}

AddObjectCalls(b) ==
  IF IsObj(b) THEN {Builder_AddObject(Mach({}), b, k) : k \in Keys}
  ELSE {ListBuilder_AddObject(Mach({}), b)}

AddListCalls(b) ==
  IF IsObj(b) THEN {Builder_AddList(Mach({}), b, k) : k \in Keys}
  ELSE {ListBuilder_AddList(Mach({}), b)}

\* AddObjectFunc/AddListFunc up to the point where f is invoked: on a writer
\* that fails preadd this is the whole call.
FuncCalls(b) ==
  IF IsObj(b)
  THEN {Builder_AddObjectFunc_call(Mach({}), b, k) : k \in Keys}
       \cup {Builder_AddListFunc_call(Mach({}), b, k) : k \in Keys}
  ELSE {ListBuilder_AddObjectFunc_call(Mach({}), b),
        ListBuilder_AddListFunc_call(Mach({}), b)}

CloseCalls(b) ==
  IF IsObj(b) THEN {Builder_Close(Mach({}), b)} ELSE {ListBuilder_Close(Mach({}), b)}

NestCalls(b) == AddObjectCalls(b) \cup AddListCalls(b)

\* Every call but AddAll, and every call with the AddAll argument lists given.
CallsWith(b, lists) ==
  AddCalls(b, Values) \cup AddAllCalls(b, lists) \cup NestCalls(b)
    \cup FuncCalls(b) \cup CloseCalls(b)

AllCalls(b) == CallsWith(b, ArgLists)

\* The AddAll argument lists that are well formed for b.
GoodLists(b) ==
  {a \in ArgLists : a # <<>> /\ IF IsObj(b) THEN PairsOK(a) ELSE TRUE}

Top == stack[Len(stack)]

\* The closing delimiter of writer c is on the sink m.sink, written by c.
CloserWritten(m, c) ==
  \E i \in 1..Len(m.sink) :
    /\ m.by[i] = c
    /\ m.sink[i] = IF m.heap[c].kind = "obj" THEN closeBraceBytes
                   ELSE closeBracketBytes

\* ============================ the document ============================
\* The compact JSON text of the call tree below writer b.  Doc closes every
\* writer; Ser closes the writers that are closed (the text so far).

RECURSIVE Text(_, _), TextEntries(_, _, _)
Text(b, whole) ==
  <<IF IsObj(b) THEN "{" ELSE "[">>
    \o TextEntries(b, tree[b], whole)
    \o (IF whole \/ heap[b].state = closedState
        THEN <<IF IsObj(b) THEN "}" ELSE "]">> ELSE <<>>)

TextEntries(b, es, whole) ==
  IF es = <<>> THEN <<>>
  ELSE LET e == es[1] IN
       (IF IsObj(b) THEN <<"\"" \o e.key \o "\"", ":">> ELSE <<>>)
         \o (IF e.child # Nil THEN Text(e.child, whole) ELSE <<e.val>>)
         \o (IF Len(es) > 1 THEN <<",">> ELSE <<>>)
         \o TextEntries(b, Tail(es), whole)

Doc == Text(1, TRUE)
Ser == Text(1, FALSE)

\* ================================ claims ================================

\* C1: after valid calls only (nothing called on a closed writer, every child
\* closed before its parent is used again, encodable values, no failing f),
\* once the top-level writer is closed without error the sink holds exactly
\* the compact JSON text of the call tree: delimiters, entries in call order,
\* key ':' value, one ',' between siblings.  Before that the sink holds the
\* same text up to the closing delimiters still to come.
C1_SinkIsDocument ==
  valid =>
    /\ sink = Ser
    /\ (heap[1].state = closedState /\ heap[1].Err = NoErr) => sink = Doc

C1_Witness ==
  /\ valid
  /\ heap[1].state = closedState /\ heap[1].Err = NoErr
  /\ Len(heap) >= 2
  /\ Len(sink) >= 7

\* C2: when the latest child b spawned with AddObject/AddList is not closed,
\* any further add or Close on b leaves b.Err set; when that child is closed
\* without error (and b is error-free and open), a well-formed call leaves
\* b.Err unset.
C2_UnclosedChildDetected ==
  \A b \in Writers :
    LET k == LastKid(b) IN
    k # Nil =>
      /\ heap[k].state # closedState =>
            \A m \in CallsWith(b, ArgLists \ {<<>>}) : m.heap[b].Err # NoErr
      /\ ( /\ heap[k].state = closedState /\ heap[k].Err = NoErr
           /\ heap[b].state # closedState /\ heap[b].Err = NoErr ) =>
            \A m \in CallsWith(b, GoodLists(b)) : m.heap[b].Err = NoErr

\* C3: a call on a writer whose Err is set appends nothing to the sink and
\* leaves the writer's state and subB as they were.
C3_NoOpAfterError ==
  \A b \in Writers :
    heap[b].Err # NoErr =>
      \A m \in AllCalls(b) :
        /\ m.sink = sink
        /\ m.heap[b].state = heap[b].state
        /\ m.heap[b].subB = heap[b].subB

\* C4: first error wins: a call on a writer whose Err is set leaves Err the
\* same error.
C4_FirstErrorWins ==
  \A b \in Writers :
    heap[b].Err # NoErr =>
      \A m \in AllCalls(b) : m.heap[b].Err = heap[b].Err

\* C5 (as claimed): every mutating call on a closed writer, AddAll with any
\* argument list included, leaves Err set.
C5_ClosedAlwaysErrors ==
  \A b \in Writers :
    heap[b].state = closedState =>
      \A m \in AllCalls(b) : m.heap[b].Err # NoErr

\* C5 (amended): every mutating call on a closed writer leaves Err set, AddAll
\* provided its argument list is not empty.
C5_ClosedErrorsNonEmpty ==
  \A b \in Writers :
    heap[b].state = closedState =>
      \A m \in CallsWith(b, ArgLists \ {<<>>}) : m.heap[b].Err # NoErr

\* A writer was closed without error and then called again.
C5_Witness ==
  \E b \in Writers :
    /\ heap[b].state = closedState
    /\ heap[b].Err \in {ErrBuilderMutated, ErrListMutated}
    /\ CloserWritten([heap |-> heap, sink |-> sink, by |-> by], b)

\* C6: when f returns, AddObjectFunc/AddListFunc leaves the parent's Err set
\* whenever f returned an error or the scoped child ends with an error, and
\* set to f's error when both are.  (Stated for an f that did not itself
\* close the child it was handed.)
C6_FuncPropagates ==
  (stack # <<>> /\ heap[Top.subB].state # closedState) =>
    \A ferr \in {NoErr, ErrFn} :
      LET m == FuncRest(Mach({}), Top, ferr) IN
      /\ (ferr # NoErr \/ m.heap[Top.subB].Err # NoErr) => m.heap[Top.b].Err # NoErr
      /\ (ferr # NoErr /\ m.heap[Top.subB].Err # NoErr) => m.heap[Top.b].Err = ferr

\* C7: Add with a value the encoder cannot serialize leaves Err set, and a
\* Close after it does not complete without error.
C7_EncodingErrorRecorded ==
  \A b \in Writers :
    \A m \in AddCalls(b, {ChanVal}) :
      /\ m.heap[b].Err # NoErr
      /\ LET c == IF IsObj(b) THEN Builder_Close(m, b) ELSE ListBuilder_Close(m, b)
         IN ~(c.heap[b].state = closedState /\ c.heap[b].Err = NoErr)

\* C8: no method is ever called on a nil writer, and in every state of the
\* parent AddObject/AddList return a writer.
C8_NoAbruptFailure ==
  /\ ~panicked
  /\ \A b \in Writers : \A m \in NestCalls(b) : m.ret # Nil

\* C9: a call on a writer changes no other writer that exists: not its
\* parent's state, Err or subB.  The rest of a Func call, run when f returns,
\* changes its receiver and the scoped child only.
C9_LazyPropagation ==
  /\ \A b \in Writers :
       \A m \in AllCalls(b) :
         \A p \in Writers \ {b} : m.heap[p] = heap[p]
  /\ stack # <<>> =>
       \A ferr \in {NoErr, ErrFn} :
         \A p \in Writers \ {Top.b, Top.subB} :
           FuncRest(Mach({}), Top, ferr).heap[p] = heap[p]

\* A tracked child carries an error and its parent does not yet.
C9_Witness ==
  \E c \in Writers :
    /\ meta[c].parent # Nil
    /\ heap[meta[c].parent].subB = c
    /\ heap[c].Err # NoErr
    /\ heap[meta[c].parent].Err = NoErr

\* C10 (as claimed): when f returns, whatever f returned and whatever the
\* state of the scoped child, the child is closed and its closing delimiter
\* written by the time the Func call returns.
C10_FuncAlwaysCloses ==
  stack # <<>> =>
    \A ferr \in {NoErr, ErrFn} :
      LET m == FuncRest(Mach({}), Top, ferr) IN
      /\ m.heap[Top.subB].state = closedState
      /\ CloserWritten(m, Top.subB)

\* C10 (amended): the same, for a scoped child that carries no error when f
\* returns and whose active child, if any, is closed and error-free.
C10_FuncClosesCleanChild ==
  ( /\ stack # <<>>
    /\ heap[Top.subB].Err = NoErr
    /\ \/ heap[Top.subB].subB = Nil
       \/ /\ heap[heap[Top.subB].subB].state = closedState
          /\ heap[heap[Top.subB].subB].Err = NoErr ) =>
    \A ferr \in {NoErr, ErrFn} :
      LET m == FuncRest(Mach({}), Top, ferr) IN
      /\ m.heap[Top.subB].state = closedState
      /\ CloserWritten(m, Top.subB)

\* A Func call has returned f's error and closed its scoped child.
C10_Witness ==
  \E c \in Writers :
    /\ meta[c].via
    /\ \A i \in 1..Len(stack) : stack[i].subB # c
    /\ heap[meta[c].parent].Err = ErrFn
    /\ heap[c].state = closedState /\ heap[c].Err = NoErr
    /\ CloserWritten([heap |-> heap, sink |-> sink, by |-> by], c)

\* The sequence of calls Add(k1, v1); ...; Add(kn, vn) (Add(v1); ...; Add(vn)
\* on a list), each run whatever the one before it left.
RECURSIVE AddEach(_, _, _, _)
AddEach(m, b, args, i) ==
  IF i > Len(args) THEN m
  ELSE IF m.heap[b].kind = "obj"
       THEN AddEach(Builder_Add(m, b, args[i].text, args[i + 1]), b, args, i + 2)
       ELSE AddEach(ListBuilder_Add(m, b, args[i]), b, args, i + 1)

KeysAreStrings(args) ==
  /\ Len(args) % 2 = 0
  /\ \A i \in 1..Len(args) : i % 2 = 1 => args[i].type = "string"

\* C11: in every state of a writer, AddAll with an even-length list whose key
\* positions hold strings (any list, for a ListBuilder) leaves the sink and
\* the writer's state, subB and Err exactly as the Add calls, one per pair
\* (per value), in order, would.
C11_AddAllIsAddEach ==
  \A b \in Writers :
    \A args \in CallLists :
      (IsObj(b) => KeysAreStrings(args)) =>
        LET all  == IF IsObj(b) THEN Builder_AddAll(Mach({}), b, args)
                    ELSE ListBuilder_AddAll(Mach({}), b, args)
            each == AddEach(Mach({}), b, args, 1)
        IN /\ all.sink = each.sink
           /\ all.heap[b] = each.heap[b]

\* The first key position of args that holds no string (0: there is none).
FirstBadKey(args) ==
  LET bad == {i \in 1..Len(args) : i % 2 = 1 /\ args[i].type # "string"}
  IN IF bad = {} THEN 0 ELSE CHOOSE i \in bad : \A j \in bad : i <= j

\* The tokens of the pairs args[i], args[i+1], ..: a ',' before every pair but
\* the first of a writer that is still in startState.
RECURSIVE PairsText(_, _, _)
PairsText(args, i, opened) ==
  IF i > Len(args) THEN <<>>
  ELSE (IF opened THEN <<",">> ELSE <<>>)
         \o <<"\"" \o args[i].text \o "\"", ":", Marshal(args[i + 1]).bytes>>
         \o PairsText(args, i + 2, TRUE)

\* C12: Builder.AddAll with an odd number of arguments leaves Err set and the
\* sink, the state and subB as they were.  With an even number and a
\* non-string in a key position it leaves Err set and the sink as AddAll of
\* the pairs before the first such key leaves it: on a writer that could be
\* written to, the tokens of exactly those pairs are appended and Err is the
\* "not a string" error.
C12_MalformedAddAll ==
  \A b \in Writers :
    IsObj(b) =>
      \A args \in CallLists :
        LET m   == Builder_AddAll(Mach({}), b, args)
            k   == FirstBadKey(args)
            pre == SubSeq(args, 1, k - 1)
        IN /\ Len(args) % 2 = 1 =>
                /\ m.heap[b].Err # NoErr
                /\ m.sink = sink
                /\ m.heap[b].state = heap[b].state
                /\ m.heap[b].subB = heap[b].subB
           /\ (Len(args) % 2 = 0 /\ k # 0) =>
                /\ m.heap[b].Err # NoErr
                /\ m.sink = Builder_AddAll(Mach({}), b, pre).sink
                /\ UsageOK(b) =>
                      /\ m.heap[b].Err = ErrArgNotString
                      /\ m.sink = sink \o PairsText(pre, 1, heap[b].state # startState)

\* AddAll met a non-string key after it had written a pair.
C12_Witness ==
  /\ heap[1].Err = ErrArgNotString
  /\ heap[1].state = openedState
  /\ sink = <<"{", "\"a\"", ":", "7">>

\* C13: Close called on a writer straight after its construction, no entry
\* added in between, leaves exactly "{" "}" (Builder) or "[" "]"
\* (ListBuilder) on the sink, the writer in closedState and Err unset.
C13_EmptyClose ==
  (misuse = 0 /\ tree = << <<>> >> /\ heap[1].state # closedState) =>
    \A m \in CloseCalls(1) :
      /\ m.sink = IF IsObj(1) THEN <<openBraceBytes, closeBraceBytes>>
                  ELSE <<openBracketBytes, closeBracketBytes>>
      /\ m.heap[1].state = closedState
      /\ m.heap[1].Err = NoErr

\* A writer was closed with nothing added to it.
C13_Witness ==
  /\ misuse = 0 /\ tree = << <<>> >>
  /\ heap[1].state = closedState /\ heap[1].Err = NoErr
  /\ Len(sink) = 2

\* C14: whatever calls were made (misuse included), as long as json.Marshal
\* refused no value (and the sink, under this specification, never fails):
\* when the top-level writer is closed and its Err unset, every writer of the
\* tree has written its closing delimiter and the last token on the sink is
\* the top-level closing delimiter.  (Both are necessary for the sink to hold
\* one well-formed document.)
C14_CheckOnceSuffices ==
  (~encfail /\ heap[1].state = closedState /\ heap[1].Err = NoErr) =>
    /\ \A c \in Writers :
         CloserWritten([heap |-> heap, sink |-> sink, by |-> by], c)
    /\ by[Len(sink)] = 1

\* The machines the calls on writer b can leave when the sink fails the Write
\* calls in F: Add and AddAll, and every call.
AddsOn(b, F) ==
  IF IsObj(b)
  THEN {Builder_Add(Mach(F), b, k, v) : k \in Keys, v \in Values}
       \cup {Builder_AddAll(Mach(F), b, a) : a \in ArgLists}
  ELSE {ListBuilder_Add(Mach(F), b, v) : v \in Values}
       \cup {ListBuilder_AddAll(Mach(F), b, a) : a \in ArgLists \ {<<>>}}

CallsOn(b, F) ==
  AddsOn(b, F) \cup
  IF IsObj(b)
  THEN UNION {{Builder_AddObject(Mach(F), b, k), Builder_AddList(Mach(F), b, k),
               Builder_AddObjectFunc_call(Mach(F), b, k),
               Builder_AddListFunc_call(Mach(F), b, k)} : k \in Keys}
       \cup {Builder_Close(Mach(F), b)}
  ELSE {ListBuilder_AddObject(Mach(F), b), ListBuilder_AddList(Mach(F), b),
        ListBuilder_AddObjectFunc_call(Mach(F), b),
        ListBuilder_AddListFunc_call(Mach(F), b), ListBuilder_Close(Mach(F), b)}

\* The Write calls the operation that left m made and the sink failed.
Failed(m) == {i \in m.fail : i <= m.nw}

\* C15 (first part): whichever Write calls the sink fails, a call on a writer
\* whose Err is set leaves Err set.
C15_SetErrorStaysSet ==
  \A b \in Writers : \A F \in FailSets :
    heap[b].Err # NoErr => \A m \in CallsOn(b, F) : m.heap[b].Err # NoErr

\* C15: the first part, and inside one Add or AddAll: once a Write has failed
\* the call makes no further Write (no key or value follows a failed ',')
\* and returns with Err set.
C15_ErrorStaysSet ==
  /\ C15_SetErrorStaysSet
  /\ \A b \in Writers : \A F \in FailSets :
       \A m \in AddsOn(b, F) :
         Failed(m) # {} =>
           /\ m.heap[b].Err # NoErr
           /\ \A i \in Failed(m) : m.nw <= i

\* Writer b carries no error and its tracked child (subB) carries one or is
\* not closed.
BadChild(b) ==
  /\ heap[b].Err = NoErr
  /\ heap[b].subB # Nil
  /\ heap[heap[b].subB].Err # NoErr \/ heap[heap[b].subB].state # closedState

\* C16: a call on such a writer b that runs preadd or Close (Add, AddAll with
\* a well-formed list, AddObject, AddList, AddObjectFunc, AddListFunc, Close)
\* leaves b.Err the child's error, or the "not closed" error when the child
\* has none, appends nothing to the sink and leaves the state of b as it was.
C16_ChildFailureSurfaces ==
  \A b \in Writers :
    BadChild(b) =>
      \A m \in CallsWith(b, GoodLists(b)) :
        /\ m.heap[b].Err = IF heap[heap[b].subB].Err # NoErr
                           THEN heap[heap[b].subB].Err ELSE ErrSubNotClosed
        /\ m.heap[b].state = heap[b].state
        /\ m.sink = sink

\* C17: no call moves a writer to an earlier state (startState, openedState,
\* closedState, in this order), and none changes the state of a closed
\* writer: every call on a writer, and the rest of a Func call run when f
\* returns, in every state reached by valid calls or misuse.
C17_StateMonotonic ==
  LET Later(m) ==
        \A w \in Writers :
          /\ m.heap[w].state >= heap[w].state
          /\ heap[w].state = closedState => m.heap[w].state = closedState
  IN /\ \A b \in Writers : \A m \in AllCalls(b) : Later(m)
     /\ stack # <<>> =>
          \A ferr \in {NoErr, ErrFn} : Later(FuncRest(Mach({}), Top, ferr))

\* A closed writer was called again, beside a writer that is open.
C17_Witness ==
  \E b, c \in Writers :
    /\ heap[b].state = closedState /\ heap[b].Err # NoErr
    /\ heap[c].state = openedState

\* The places on the sink where writer b wrote one of the tokens in toks.
Wrote(b, toks) == {i \in 1..Len(sink) : by[i] = b /\ sink[i] \in toks}

Opener(b) == IF IsObj(b) THEN openBraceBytes ELSE openBracketBytes
Closer(b) == IF IsObj(b) THEN closeBraceBytes ELSE closeBracketBytes

\* C18 (the sink never fails): every writer has written its opening delimiter
\* exactly once, as its first token; it has written its closing delimiter
\* once if it is in closedState and never otherwise.  A Close call appends
\* the closing delimiter, and nothing else, when it moves the writer to
\* closedState, and appends nothing when it does not (the writer is closed
\* already, carries an error, or its sub-builder is open or in error).
C18_DelimitersOnce ==
  \A b \in Writers :
    /\ Cardinality(Wrote(b, {openBraceBytes, openBracketBytes})) = 1
    /\ Wrote(b, {Opener(b)}) = {CHOOSE i \in 1..Len(sink) :
                                  by[i] = b /\ \A j \in 1..(i - 1) : by[j] # b}
    /\ Wrote(b, {closeBraceBytes, closeBracketBytes}) = Wrote(b, {Closer(b)})
    /\ Cardinality(Wrote(b, {Closer(b)})) =
          IF heap[b].state = closedState THEN 1 ELSE 0
    /\ \A m \in CloseCalls(b) :
          IF heap[b].state # closedState /\ m.heap[b].state = closedState
          THEN m.sink = Append(sink, Closer(b)) /\ m.by = Append(by, b)
          ELSE m.sink = sink

\* A Close was refused on a closed writer, and another writer is open with
\* entries.
C18_Witness ==
  \E b, c \in Writers :
    /\ heap[b].state = closedState
    /\ heap[b].Err \in {ErrBuilderCloseMutated, ErrListCloseMutated}
    /\ heap[c].state = openedState
    /\ Wrote(c, {commaBytes}) # {}

\* C19 (the sink never fails): a writer that carries no error has written
\* one ',' less than the entries it has started (Add, AddObject, AddList,
\* AddObjectFunc and AddListFunc alike), and none when it has started none;
\* in startState it has started none, in openedState at least one.
C19_SeparatorCount ==
  \A b \in Writers :
    heap[b].Err = NoErr =>
      /\ Cardinality(Wrote(b, {commaBytes})) =
            IF started[b] = 0 THEN 0 ELSE started[b] - 1
      /\ heap[b].state = startState => started[b] = 0
      /\ heap[b].state = openedState => started[b] > 0

\* An error-free writer has started three entries, one of them the scoped
\* child of a Func call and one a scalar.
C19_Witness ==
  \E b \in Writers :
    /\ heap[b].Err = NoErr
    /\ started[b] = 3
    /\ Cardinality(Wrote(b, {commaBytes})) = 2
    /\ \E c \in Kids(b) : meta[c].via
    /\ Cardinality(Kids(b)) < 3

====
